---- MODULE Spec2Model ----
(***************************************************************************)
(* Model of plugins/contiv/node_id_allocator.go: the idAllocator that      *)
(* hands every node a unique small number, using one record per id in a   *)
(* shared key-value store (etcd) and an atomic put-if-not-exists.          *)
(*                                                                         *)
(* One idAllocator instance per node; instance i has serviceLabel i.       *)
(* getID() is split at its store operations (ListValues, ListKeys,         *)
(* PutIfNotExists), because other instances' store operations interleave   *)
(* there; releaseID() issues one store operation and is one step.          *)
(* A caller is a thread that calls one instance (obj); pc, attempts and    *)
(* ret are the caller's, allocated and ID the instance's.  Caller i calls  *)
(* instance i, but for the specification of the mutex, where all callers   *)
(* call instance 1.                                                        *)
(***************************************************************************)
EXTENDS Integers, Sequences, FiniteSets, TLC

\* ------------------------------------------------------------------ bounds
\* number of idAllocator instances (nodes), labels 1..NumInst
NumInst == 2
\* ids 1..MaxPre may be held, when the model starts, by nodes outside the model
MaxPre == 2
\* releaseID() calls that delete, in the specification that counts them
MaxRel == 1

\* --------------------------------------------------------- program constants
allocatedIDsKeyPrefix == "allocatedIDs/"
maxAttempts == 10

Instances == 1..NumInst
\* the owner name on records of nodes that are not modelled as instances
ForeignLabel == 0
serviceLabel(i) == i

VARIABLES
    store,      \* the etcd contents under the broker's prefix: a set of [key, value]
    allocated,  \* ia.allocated of every instance
    ID,         \* ia.ID of every instance
    pc,         \* where the instance's current call stands: "idle", "list", "write"
    attempts,   \* the local variable attempts of a running getID()
    ret,        \* what the instance's last finished call returned
    step,       \* the last step taken: who, in which call, which store operation
    got,        \* id of the last successful getID() since which the instance called no releaseID()
    prev,       \* got of the destroyed predecessor, until the first getID() of its successor ends
    released,   \* ids given up so far, by a releaseID() or with the process, where the
                \* specification counts them
    lock,       \* the sync.Mutex of every instance: the caller that holds it, or 0
    obj         \* the instance every caller calls

vars == <<store, allocated, ID, pc, attempts, ret, step, got, prev, released, lock, obj>>

\* ------------------------------------------------------- keys and conversions
Digits == <<"0", "1", "2", "3", "4", "5", "6", "7", "8", "9">>

\* strconv.FormatUint(n, 10): the decimal digits of n, most significant first
RECURSIVE FormatUint(_)
FormatUint(n) ==
    IF n < 10 THEN <<Digits[n + 1]>>
    ELSE FormatUint(n \div 10) \o <<Digits[(n % 10) + 1]>>

DigitValue(c) == CHOOSE d \in 0..9 : Digits[d + 1] = c
IsDigit(c) == \E d \in 0..9 : Digits[d + 1] = c

RECURSIVE ParseDigits(_, _)
ParseDigits(s, acc) ==
    IF s = <<>> THEN acc
    ELSE ParseDigits(Tail(s), 10 * acc + DigitValue(Head(s)))

\* strconv.Atoi: an optional sign, then one or more decimal digits
Atoi(s) ==
    LET signed == s # <<>> /\ Head(s) \in {"+", "-"}
        body == IF signed THEN Tail(s) ELSE s
    IN  IF body = <<>> \/ \E k \in 1..Len(body) : ~IsDigit(body[k])
        THEN [val |-> 0, err |-> "atoi"]
        ELSE [val |-> IF signed /\ Head(s) = "-" THEN 0 - ParseDigits(body, 0)
                      ELSE ParseDigits(body, 0),
              err |-> "nil"]

\* a key is the sequence of its pieces: the prefix, then one character per element
createKey(index) == <<allocatedIDsKeyPrefix>> \o FormatUint(index)

HasPrefix(key, prefix) == key # <<>> /\ Head(key) = prefix

extractIndexFromKey(key) ==
    IF HasPrefix(key, allocatedIDsKeyPrefix)
    THEN Atoi(Tail(key))
    ELSE [val |-> 0, err |-> "errInvalidKey"]

\* uid.Identifier
Identifier(name, id) == [Name |-> name, Id |-> id]

\* ------------------------------------------------------------------ the store
Entry(key, value) == [key |-> key, value |-> value]
KeyExists(s, key) == \E e \in s : e.key = key

\* etcd PutIfNotExists: one transaction that writes the pair only if the key is absent
PutSucceedsAlways(s, key) == TRUE
PutSucceeds(s, key) == ~KeyExists(s, key)
PutIfNotExists(s, key, value) ==
    IF PutSucceeds(s, key) THEN s \cup {Entry(key, value)} ELSE s

\* broker.Delete(key)
DeletePrefix(s, key) == {e \in s : ~HasPrefix(e.key, Head(key))}
Delete(s, key) == {e \in s : e.key # key}

\* broker.ListValues(prefix), broker.ListKeys(prefix)
ListValues(s, prefix) == {e \in s : HasPrefix(e.key, prefix)}
ListKeys(s, prefix) == {e.key : e \in ListValues(s, prefix)}

\* the orders in which an iterator may hand out the elements of S
RECURSIVE Orders(_)
Orders(S) ==
    IF S = {} THEN {<<>>}
    ELSE UNION {{<<x>> \o o : o \in Orders(S \ {x})} : x \in S}

\* ---------------------------------------------------------- pure helpers
\* sort.Ints: increasing order, every value as often as it occurs; the value at
\* place k is the one with fewer than k values below it and at least k values
\* not above it
SortInts(s) ==
    [k \in 1..Len(s) |->
        CHOOSE x \in {s[j] : j \in 1..Len(s)} :
            /\ Cardinality({j \in 1..Len(s) : s[j] < x}) < k
            /\ k <= Cardinality({j \in 1..Len(s) : s[j] <= x})]

RECURSIVE FirstAvailableFrom(_, _)
FirstAvailableFrom(res, ids) ==
    IF ids # <<>> /\ res = Head(ids)
    THEN FirstAvailableFrom(res + 1, Tail(ids))
    ELSE res

\* line 183: res := 1
findFirstAvailableIndexFromZero(ids) == FirstAvailableFrom(0, ids)
findFirstAvailableIndex(ids) == FirstAvailableFrom(1, ids)

\* the loop of listAllIDs over the keys still to come, ids collected so far: every
\* id is appended, the first parse error ends the loop
RECURSIVE AppendIDs(_, _)
AppendIDs(keys, ids) ==
    IF keys = <<>> THEN [ids |-> ids, err |-> "nil"]
    ELSE LET first == extractIndexFromKey(Head(keys))
         IN  IF first.err # "nil" THEN [ids |-> <<>>, err |-> first.err]
             ELSE AppendIDs(Tail(keys), Append(ids, first.val))

\* listAllIDs on keys handed out in the order keys: the ids, or the first parse error
listAllIDs(keys) == AppendIDs(keys, <<>>)

\* lines 94-97 of getID: the candidate of one attempt
CandidateUnsorted(ids) == findFirstAvailableIndex(ids)
Candidate(ids) ==
    CHOOSE res \in {findFirstAvailableIndex(sorted) : sorted \in {SortInts(ids)}} : TRUE

\* findExistingEntry: the records the scan may stop at
ExistingEntriesNone(s, i) == {}
ExistingEntries(s, i) ==
    {e.value : e \in {x \in ListValues(s, allocatedIDsKeyPrefix) : x.value.Name = serviceLabel(i)}}

\* ------------------------------------------------------------- observations
\* a result: the call, what it returned, and how many conditional writes it issued
Ret(op, id, err, writes) == [op |-> op, id |-> id, err |-> err, writes |-> writes]
NoRet == Ret("none", 0, "nil", 0)
Step(i, call, op) == [inst |-> i, call |-> call, op |-> op]

\* ---------------------------------------------------------------------- Init
InitStores ==
    {{Entry(createKey(n), Identifier(ForeignLabel, n)) : n \in S} : S \in SUBSET (1..MaxPre)}

\* a key under the prefix that is not a number, and the store with it
BadKey == <<allocatedIDsKeyPrefix, "x">>
WithBadKey(s) == s \cup {Entry(BadKey, Identifier(ForeignLabel, 0))}

\* newIDAllocator, lines 59-65: every instance as it is constructed
Constructed ==
    /\ allocated = [i \in Instances |-> FALSE]
    /\ ID = [i \in Instances |-> 0]
    /\ pc = [i \in Instances |-> "idle"]
    /\ attempts = [i \in Instances |-> 0]
    /\ ret = [i \in Instances |-> NoRet]
    /\ step = Step(0, "none", "none")
    /\ got = [i \in Instances |-> 0]
    /\ prev = [i \in Instances |-> 0]
    /\ released = 0
    /\ lock = [i \in Instances |-> 0]

\* every caller has an instance of its own
Init ==
    /\ store \in InitStores
    /\ Constructed
    /\ obj = [i \in Instances |-> i]

\* the same, on a store that holds nothing yet
InitEmpty ==
    /\ store = {}
    /\ Constructed
    /\ obj = [i \in Instances |-> i]

\* the same, on a store where a foreign writer may have left a key that is no number
InitBadKey ==
    /\ store \in InitStores \cup {WithBadKey(s) : s \in InitStores}
    /\ Constructed
    /\ obj = [i \in Instances |-> i]

\* all the callers are goroutines of one process and share its instance
InitMutex ==
    /\ store \in InitStores
    /\ Constructed
    /\ obj = [i \in Instances |-> 1]

\* the successor's first getID() has ended
Ended(i) == [prev EXCEPT ![obj[i]] = 0]

\* ------------------------------------------------------------- the mutex
\* lines 69 and 119: ia.Lock() returns once no other call holds the mutex
LockIgnored(o) == TRUE
LockFree(o) == lock[o] = 0

\* the call goes on after this step: it keeps the mutex
Locked(i) == [lock EXCEPT ![obj[i]] = i]
\* lines 70 and 120: the deferred ia.Unlock() of a call that returns
Unlocked(i) == [lock EXCEPT ![obj[i]] = 0]

\* a call of caller i may start
CanCall(i) == pc[i] = "idle" /\ LockFree(obj[i])

\* ------------------------------------------------------------------- getID()
\* line 72
NeverAllocated(i) == FALSE
AlreadyAllocated(i) == allocated[obj[i]]

\* lines 69-74: the instance holds an id already
GetIDHeld(i) ==
    /\ CanCall(i)
    /\ AlreadyAllocated(i)
    /\ ret' = [ret EXCEPT ![i] = Ret("getID", ID[obj[i]], "nil", 0)]
    /\ step' = Step(i, "getID", "none")
    /\ prev' = Ended(i)
    /\ UNCHANGED <<store, allocated, ID, pc, attempts, got, released, lock, obj>>

\* lines 69-88: the discovery pass, its ListValues answered
Discover(i) ==
    /\ CanCall(i)
    /\ ~AlreadyAllocated(i)
    /\ step' = Step(i, "getID", "ListValues")
    /\ IF ExistingEntries(store, obj[i]) # {}
       THEN \E existingEntry \in ExistingEntries(store, obj[i]) :
              /\ allocated' = [allocated EXCEPT ![obj[i]] = TRUE]
              /\ ID' = [ID EXCEPT ![obj[i]] = existingEntry.Id]
              /\ ret' = [ret EXCEPT ![i] = Ret("getID", existingEntry.Id, "nil", 0)]
              /\ got' = [got EXCEPT ![obj[i]] = existingEntry.Id]
              /\ prev' = Ended(i)
              /\ UNCHANGED <<pc, attempts, lock>>
       ELSE /\ pc' = [pc EXCEPT ![i] = "list"]
            /\ attempts' = [attempts EXCEPT ![i] = 0]
            /\ ret' = [ret EXCEPT ![i] = NoRet]
            /\ lock' = Locked(i)
            /\ UNCHANGED <<allocated, ID, got, prev>>
    /\ UNCHANGED <<store, released, obj>>

\* lines 77-80: ListValues, or the decoding of a value, fails
DiscoverErr(i) ==
    /\ CanCall(i)
    /\ ~AlreadyAllocated(i)
    /\ step' = Step(i, "getID", "ListValues")
    /\ ret' = [ret EXCEPT ![i] = Ret("getID", 0, "store", 0)]
    /\ prev' = Ended(i)
    /\ UNCHANGED <<store, allocated, ID, pc, attempts, got, released, lock, obj>>

\* lines 90-97: ListKeys answered, the ids parsed and sorted, the candidate chosen
ListIDs(i) ==
    /\ pc[i] = "list"
    /\ step' = Step(i, "getID", "ListKeys")
    /\ \E keys \in Orders(ListKeys(store, allocatedIDsKeyPrefix)) :
         \E listed \in {listAllIDs(keys)} :
             IF listed.err # "nil"
             THEN /\ ret' = [ret EXCEPT ![i] = Ret("getID", 0, listed.err, attempts[i])]
                  /\ pc' = [pc EXCEPT ![i] = "idle"]
                  /\ attempts' = [attempts EXCEPT ![i] = 0]
                  /\ prev' = Ended(i)
                  /\ lock' = Unlocked(i)
                  /\ UNCHANGED ID
             ELSE /\ attempts' = [attempts EXCEPT ![i] = attempts[i] + 1]
                  /\ ID' = [ID EXCEPT ![obj[i]] = Candidate(listed.ids)]
                  /\ pc' = [pc EXCEPT ![i] = "write"]
                  /\ UNCHANGED <<ret, prev, lock>>
    /\ UNCHANGED <<store, allocated, got, released, obj>>

\* lines 90-93: ListKeys fails
ListErr(i) ==
    /\ pc[i] = "list"
    /\ step' = Step(i, "getID", "ListKeys")
    /\ ret' = [ret EXCEPT ![i] = Ret("getID", 0, "store", attempts[i])]
    /\ pc' = [pc EXCEPT ![i] = "idle"]
    /\ attempts' = [attempts EXCEPT ![i] = 0]
    /\ prev' = Ended(i)
    /\ lock' = Unlocked(i)
    /\ UNCHANGED <<store, allocated, ID, got, released, obj>>

\* line 108
BudgetSpentAtOnce(n) == n > 0
BudgetSpent(n) == n > maxAttempts

\* lines 89-90: after a lost race the loop starts over at listAllIDs
LostRaceNextStale == "write"
LostRaceNext == "list"

\* lines 99-114 and writeIfNotExists: the conditional write answered
Write(i) ==
    /\ pc[i] = "write"
    /\ step' = Step(i, "getID", "PutIfNotExists")
    /\ store' = PutIfNotExists(store, createKey(ID[obj[i]]),
                               Identifier(serviceLabel(obj[i]), ID[obj[i]]))
    /\ IF PutSucceeds(store, createKey(ID[obj[i]]))
       THEN /\ allocated' = [allocated EXCEPT ![obj[i]] = TRUE]
            /\ ret' = [ret EXCEPT ![i] = Ret("getID", ID[obj[i]], "nil", attempts[i])]
            /\ got' = [got EXCEPT ![obj[i]] = ID[obj[i]]]
            /\ pc' = [pc EXCEPT ![i] = "idle"]
            /\ attempts' = [attempts EXCEPT ![i] = 0]
            /\ prev' = Ended(i)
            /\ lock' = Unlocked(i)
       ELSE IF BudgetSpent(attempts[i])
       THEN /\ ret' = [ret EXCEPT ![i] = Ret("getID", 0, "errUnableToAllocateID", attempts[i])]
            /\ pc' = [pc EXCEPT ![i] = "idle"]
            /\ attempts' = [attempts EXCEPT ![i] = 0]
            /\ prev' = Ended(i)
            /\ lock' = Unlocked(i)
            /\ UNCHANGED <<allocated, got>>
       ELSE /\ pc' = [pc EXCEPT ![i] = LostRaceNext]
            /\ UNCHANGED <<allocated, ret, attempts, got, prev, lock>>
    /\ UNCHANGED <<ID, released, obj>>

\* lines 100-102: a conditional write that reports an error ends the call
StoreErrNextRetry == "list"
StoreErrNext == "idle"

\* lines 99-102: the conditional write reports an error; the store may have applied it
WriteErr(i) ==
    /\ pc[i] = "write"
    /\ step' = Step(i, "getID", "PutIfNotExists")
    /\ \E applied \in BOOLEAN :
         store' = IF applied
                  THEN PutIfNotExists(store, createKey(ID[obj[i]]),
                                      Identifier(serviceLabel(obj[i]), ID[obj[i]]))
                  ELSE store
    /\ ret' = [ret EXCEPT ![i] = Ret("getID", 0, "store", attempts[i])]
    /\ pc' = [pc EXCEPT ![i] = StoreErrNext]
    /\ attempts' = [attempts EXCEPT ![i] = 0]
    /\ prev' = Ended(i)
    /\ lock' = Unlocked(i)
    /\ UNCHANGED <<allocated, ID, got, released, obj>>

\* --------------------------------------------------------------- releaseID()
\* line 122
HoldsIDAlways(i) == TRUE
HoldsID(i) == allocated[obj[i]]

\* lines 126-127: broker.Delete answers (existed, err); the first is dropped
ReleaseSucceedsIfExisted(existed, err) == err = "nil" /\ existed
ReleaseSucceeds(existed, err) == err = "nil"

\* the store operation of a release, by what the store found at the key
DeleteOp(existed) == IF existed THEN "Delete" ELSE "DeleteAbsent"

\* lines 127-129
AfterDeleteCleared(i, existed, err) == [allocated EXCEPT ![obj[i]] = FALSE]
AfterDelete(i, existed, err) ==
    IF ReleaseSucceeds(existed, err)
    THEN [allocated EXCEPT ![obj[i]] = FALSE]
    ELSE allocated

\* lines 119-124: nothing allocated
ReleaseNone(i) ==
    /\ CanCall(i)
    /\ ~HoldsID(i)
    /\ ret' = [ret EXCEPT ![i] = Ret("releaseID", 0, "errNoIDallocated", 0)]
    /\ step' = Step(i, "releaseID", "none")
    /\ UNCHANGED <<store, allocated, ID, pc, attempts, got, prev, released, lock, obj>>

\* lines 126-131: the delete answered without error
ReleaseID(i) ==
    /\ CanCall(i)
    /\ HoldsID(i)
    /\ store' = Delete(store, createKey(ID[obj[i]]))
    /\ allocated' = AfterDelete(i, KeyExists(store, createKey(ID[obj[i]])), "nil")
    /\ ret' = [ret EXCEPT ![i] = Ret("releaseID", 0, "nil", 0)]
    /\ step' = Step(i, "releaseID", DeleteOp(KeyExists(store, createKey(ID[obj[i]]))))
    /\ got' = [got EXCEPT ![obj[i]] = 0]
    /\ UNCHANGED <<ID, pc, attempts, prev, lock, obj>>

Release(i) == ReleaseID(i) /\ UNCHANGED released

\* the same call, counted and bounded
ReleaseCounted(i) ==
    /\ released < MaxRel
    /\ ReleaseID(i)
    /\ released' = released + 1

\* lines 126-131: the delete reports an error; the store may have applied it
ReleaseErr(i) ==
    /\ CanCall(i)
    /\ HoldsID(i)
    /\ \E applied \in BOOLEAN :
         /\ store' = IF applied THEN Delete(store, createKey(ID[obj[i]])) ELSE store
         /\ allocated' = AfterDelete(i, KeyExists(store, createKey(ID[obj[i]])), "store")
    /\ ret' = [ret EXCEPT ![i] = Ret("releaseID", 0, "store", 0)]
    /\ step' = Step(i, "releaseID", DeleteOp(KeyExists(store, createKey(ID[obj[i]]))))
    /\ got' = [got EXCEPT ![obj[i]] = 0]
    /\ UNCHANGED <<ID, pc, attempts, prev, released, lock, obj>>

\* ---------------------------------------------------------- process restart
\* the callers of the instance of caller i
Callers(i) == {c \in Instances : obj[c] = obj[i]}

\* the process of the instance dies, at any point, with all the calls running on
\* it, and newIDAllocator (lines 59-65) builds a new instance with the same
\* serviceLabel
RestartInstance(i) ==
    /\ allocated' = [allocated EXCEPT ![obj[i]] = FALSE]
    /\ ID' = [ID EXCEPT ![obj[i]] = 0]
    /\ pc' = [c \in Instances |-> IF c \in Callers(i) THEN "idle" ELSE pc[c]]
    /\ attempts' = [c \in Instances |-> IF c \in Callers(i) THEN 0 ELSE attempts[c]]
    /\ ret' = [c \in Instances |-> IF c \in Callers(i) THEN NoRet ELSE ret[c]]
    /\ step' = Step(i, "restart", "none")
    /\ prev' = [prev EXCEPT ![obj[i]] = got[obj[i]]]
    /\ got' = [got EXCEPT ![obj[i]] = 0]
    /\ lock' = Unlocked(i)
    /\ UNCHANGED <<store, obj>>

Restart(i) == RestartInstance(i) /\ UNCHANGED released

\* the same event, counted and bounded together with the releases
RestartCounted(i) ==
    /\ released < MaxRel
    /\ RestartInstance(i)
    /\ released' = released + 1

\* ---------------------------------------------------------- specifications
Next ==
    \E i \in Instances :
        \/ GetIDHeld(i)
        \/ Discover(i)
        \/ DiscoverErr(i)
        \/ ListIDs(i)
        \/ ListErr(i)
        \/ Write(i)
        \/ WriteErr(i)
        \/ ReleaseNone(i)
        \/ Release(i)
        \/ ReleaseErr(i)
        \/ Restart(i)

Spec == Init /\ [][Next]_vars

\* getID() alone: no releaseID(), no store error, no restart
NextAcq ==
    \E i \in Instances :
        \/ GetIDHeld(i)
        \/ Discover(i)
        \/ ListIDs(i)
        \/ Write(i)

SpecAcq == Init /\ [][NextAcq]_vars

\* getID() and releaseID() without restarts, at most MaxRel releases; the store's
\* listings may fail, its conditional writes and deletes are answered
NextOps ==
    \E i \in Instances :
        \/ GetIDHeld(i)
        \/ Discover(i)
        \/ DiscoverErr(i)
        \/ ListIDs(i)
        \/ ListErr(i)
        \/ Write(i)
        \/ ReleaseNone(i)
        \/ ReleaseCounted(i)

SpecOps == Init /\ [][NextOps]_vars

\* getID() alone against a store whose every operation may fail
NextAcqErr ==
    \E i \in Instances :
        \/ GetIDHeld(i)
        \/ Discover(i)
        \/ DiscoverErr(i)
        \/ ListIDs(i)
        \/ ListErr(i)
        \/ Write(i)
        \/ WriteErr(i)

SpecAcqErr == Init /\ [][NextAcqErr]_vars

\* getID() alone, a key that is no number possibly among the keys
SpecBadKey == InitBadKey /\ [][NextAcq]_vars

\* getID() and releaseID() from an empty store; the deletes may fail, applied
\* or not, and at most MaxRel releases succeed
NextRel ==
    \E i \in Instances :
        \/ GetIDHeld(i)
        \/ Discover(i)
        \/ ListIDs(i)
        \/ Write(i)
        \/ ReleaseNone(i)
        \/ ReleaseCounted(i)
        \/ ReleaseErr(i)

SpecRel == InitEmpty /\ [][NextRel]_vars

\* the callers of one instance: getID() and releaseID(), at most MaxRel releases
NextMutex ==
    \E i \in Instances :
        \/ GetIDHeld(i)
        \/ Discover(i)
        \/ ListIDs(i)
        \/ Write(i)
        \/ ReleaseNone(i)
        \/ ReleaseCounted(i)

SpecMutex == InitMutex /\ [][NextMutex]_vars

\* getID() and releaseID() from an empty store with failing writes and deletes,
\* applied or not, and crashes; at most MaxRel times an instance gives up its id
\* by a releaseID() that succeeds or with its process
NextCrash ==
    \E i \in Instances :
        \/ GetIDHeld(i)
        \/ Discover(i)
        \/ ListIDs(i)
        \/ Write(i)
        \/ WriteErr(i)
        \/ ReleaseCounted(i)
        \/ ReleaseErr(i)
        \/ RestartCounted(i)

SpecCrash == InitEmpty /\ [][NextCrash]_vars

\* getID() alone, every call that can take a step taking it in the end
SpecAcqFair ==
    /\ Init
    /\ [][NextAcq]_vars
    /\ \A i \in Instances : WF_vars(Discover(i) \/ ListIDs(i) \/ Write(i))

\* ------------------------------------------------------------------- claims
\* the last finished call of i was a getID() that returned an id
Succeeded(i) == ret[i].op = "getID" /\ ret[i].err = "nil"
\* the ids that have a record in the store
PresentIDs(s) == {e.value.Id : e \in s}
\* the smallest positive integer that is not in S
MinFree(S) ==
    CHOOSE n \in 1..(Cardinality(S) + 1) : n \notin S /\ \A m \in 1..(n - 1) : m \in S
\* the record of instance i for id n
Record(i, n) == Entry(createKey(n), Identifier(serviceLabel(i), n))

\* C1 (under SpecAcq: getID() steps of all instances interleaved, no release, no
\* store error): the ids returned by the successful getID() calls of different
\* instances are pairwise distinct.
C1_Uniqueness ==
    \A i, j \in Instances :
        (i # j /\ Succeeded(i) /\ Succeeded(j)) => ret[i].id # ret[j].id

\* every instance has got its id, one of them after losing a race
C1_Witness ==
    /\ \A i \in Instances : Succeeded(i) /\ allocated[i]
    /\ \E i \in Instances : ret[i].writes >= 2

\* C2 (as claimed, store errors included): no two instances that both have
\* allocated = TRUE hold the same ID.
C2_DistinctHeld ==
    \A i, j \in Instances :
        (i # j /\ allocated[i] /\ allocated[j]) => ID[i] # ID[j]

\* C3 (as claimed, store errors included): between calls, an instance with
\* allocated = TRUE has the record {name: its serviceLabel, id: its ID} in the
\* store at key allocatedIDs/<ID>.
C3_HeldHasRecord ==
    \A i \in Instances :
        (allocated[i] /\ pc[i] = "idle") => Record(i, ID[i]) \in store

\* C4: a getID() on an instance whose allocated flag is set returns the ID the
\* instance holds, the same id as its previous successful getID(), issues no
\* store operation and leaves the store and the instance as they were.
C4_Idempotent ==
    [][\A i \in Instances :
         (allocated[i] /\ pc[i] = "idle" /\ step'.inst = i /\ step'.call = "getID")
         => /\ step'.op = "none"
            /\ store' = store
            /\ ret'[i].op = "getID" /\ ret'[i].err = "nil" /\ ret'[i].id = ID[i]
            /\ ret'[i].writes = 0
            /\ Succeeded(i) => ret'[i].id = ret[i].id
            /\ allocated' = allocated /\ ID' = ID /\ pc' = pc]_vars

\* a second getID() in a row has returned, and the id is the one of the record
C4_Witness ==
    \E i \in Instances :
        /\ step = Step(i, "getID", "none")
        /\ Succeeded(i) /\ allocated[i]
        /\ Record(i, ret[i].id) \in store

\* C5 (as claimed, store errors included): an instance that got id k from getID()
\* and was destroyed without calling releaseID() is followed by an instance with
\* the same label whose first getID(), when it succeeds, ends with the discovery
\* pass, returns k and writes nothing.
C5_RestartStable ==
    [][\A i \in Instances :
         (prev[i] # 0 /\ prev'[i] = 0 /\ ret'[i].op = "getID" /\ ret'[i].err = "nil")
         => /\ ret'[i].id = prev[i]
            /\ step'.op = "ListValues"
            /\ store' = store]_vars

\* C6: the candidate of an allocation attempt is the smallest positive integer
\* that has no record in the store at the time of the listing, in whatever order
\* the keys are listed; a conditional write that succeeds returns its candidate.
C6_FirstGap ==
    [][\A i \in Instances :
         /\ (pc[i] = "list" /\ pc'[i] = "write")
            => ID'[i] = MinFree(PresentIDs(store))
         /\ (pc[i] = "write" /\ Succeeded(i)')
            => ret'[i].id = ID[i] /\ ID[i] \notin PresentIDs(store)]_vars

\* an attempt has chosen a candidate below an id that is present: a hole
C6_Witness ==
    \E i \in Instances :
        /\ pc[i] = "write"
        /\ step = Step(i, "getID", "ListKeys")
        /\ ID[i] > 1
        /\ \E n \in PresentIDs(store) : n > ID[i]

\* C7: a releaseID() that succeeds removes the record at allocatedIDs/<ID> and
\* nothing else, and clears allocated; an allocation attempt that lists the store
\* right after the release of k, with 1..k-1 present, chooses k again.
C7_ReleaseReuse ==
    [][/\ \A i \in Instances :
            (allocated[i] /\ pc[i] = "idle" /\ step'.inst = i
                /\ step'.call = "releaseID" /\ ret'[i].err = "nil")
            => /\ Record(i, ID[i]) \in store
               /\ store' = store \ {Record(i, ID[i])}
               /\ ~allocated'[i]
               /\ ID'[i] = ID[i]
       /\ \A i, j \in Instances :
            (step = Step(i, "releaseID", "Delete") /\ ret[i].err = "nil"
                /\ pc[j] = "list" /\ pc'[j] = "write"
                /\ \A m \in 1..(ID[i] - 1) : m \in PresentIDs(store))
            => ID'[j] = ID[i]]_vars

\* the id released a step ago is the candidate again, below an id still present
C7_Witness ==
    \E i, j \in Instances :
        /\ step = Step(j, "getID", "ListKeys")
        /\ pc[j] = "write"
        /\ ret[i] = Ret("releaseID", 0, "nil", 0)
        /\ i # j
        /\ ID[j] = ID[i]
        /\ \E n \in PresentIDs(store) : n > ID[j]

\* C8: a releaseID() on an instance whose allocated flag is not set returns
\* errNoIDallocated, issues no store operation and changes neither the store
\* nor the instance.
C8_ReleaseNone ==
    [][\A i \in Instances :
         (~allocated[i] /\ pc[i] = "idle" /\ step'.inst = i /\ step'.call = "releaseID")
         => /\ ret'[i] = Ret("releaseID", 0, "errNoIDallocated", 0)
            /\ step'.op = "none"
            /\ store' = store
            /\ allocated' = allocated /\ ID' = ID /\ pc' = pc /\ attempts' = attempts]_vars

\* releaseID() was refused on an instance that holds nothing, after an earlier call
\* of it had left an id in ID
C8_Witness ==
    \E i \in Instances :
        /\ step = Step(i, "releaseID", "none")
        /\ ret[i].err = "errNoIDallocated"
        /\ ~allocated[i]
        /\ ID[i] # 0

\* C9 (as claimed): a getID() call issues at most maxAttempts conditional writes.
C9_AtMostMaxAttempts ==
    \A i \in Instances : pc[i] = "write" => attempts[i] <= maxAttempts

\* C10: of the instances that are about to write the same candidate, the first to
\* write wins and the others lose: a write on a key that exists changes nothing
\* and sends the loser back to the listing; the loser's next candidate is taken
\* from the store as it is then, has no record, and is another one.
C10_RaceResolution ==
    [][\A i \in Instances :
         /\ (pc[i] = "write" /\ step'.inst = i /\ KeyExists(store, createKey(ID[i])))
            => /\ store' = store
               /\ ~allocated'[i]
               /\ ~BudgetSpent(attempts[i]) => pc'[i] = "list"
         /\ (pc[i] = "write" /\ step'.inst = i /\ ~KeyExists(store, createKey(ID[i])))
            => /\ store' = store \cup {Record(i, ID[i])}
               /\ allocated'[i] /\ Succeeded(i)' /\ ret'[i].id = ID[i]
               /\ \A j \in Instances \ {i} :
                    (pc[j] = "write" /\ ID[j] = ID[i]) => KeyExists(store', createKey(ID[j]))
         /\ (pc[i] = "list" /\ attempts[i] >= 1 /\ pc'[i] = "write")
            => /\ ID'[i] = MinFree(PresentIDs(store))
               /\ ID[i] \in PresentIDs(store) => ID'[i] # ID[i]]_vars

\* the loser of a race has listed again and stands before its second write, with
\* another candidate than the one the winner holds
C10_Witness ==
    \E i, j \in Instances :
        /\ i # j
        /\ allocated[i] /\ Succeeded(i) /\ ret[i].writes = 1
        /\ pc[j] = "write" /\ attempts[j] = 2
        /\ ID[j] # ID[i]
        /\ Record(i, ID[i]) \in store

\* the last finished call of i was a releaseID() that returned the store's error
FailedRelease(i) == ret[i].op = "releaseID" /\ ret[i].err = "store"
\* the records whose name is the label of instance o
Owned(s, o) == {e \in s : e.value.Name = serviceLabel(o)}
\* the ids of the records that other nodes left in the store
ForeignIDs(s) == {e.value.Id : e \in Owned(s, ForeignLabel)}
\* no holes: the ids are 1..n for some n >= 0
Dense(S) == S = 1..Cardinality(S)

\* C11: a store operation of getID() that returns an error (ListValues, ListKeys
\* or the conditional write) ends the call at once with that error: the call is
\* over and has given back the mutex, so it issues no further store operation and
\* does not go back to the listing as after a lost race; it returns no id and
\* allocated is false.
C11_StoreErrorAborts ==
    [][\A i \in Instances :
         (step'.inst = i /\ step'.call = "getID" /\ ret'[i].err = "store")
         => /\ step'.op \in {"ListValues", "ListKeys", "PutIfNotExists"}
            /\ ret'[i].op = "getID" /\ ret'[i].id = 0
            /\ pc'[i] = "idle"
            /\ lock'[obj[i]] = 0
            /\ ~allocated'[obj[i]]
            /\ ret'[i].writes = attempts[i]]_vars

\* a conditional write has returned an error although the store applied it: the
\* call is over, the record is there and the instance holds nothing
C11_Witness ==
    \E i \in Instances :
        /\ step = Step(i, "getID", "PutIfNotExists")
        /\ ret[i].err = "store" /\ ret[i].writes >= 1
        /\ pc[i] = "idle" /\ ~allocated[i]
        /\ Record(i, ID[i]) \in store

\* C12: a releaseID() whose delete returns an error returns that error and leaves
\* allocated true and ID as it was; the next releaseID() of the instance deletes
\* at the same key and nowhere else, and the next getID() returns the same ID
\* without a store operation.
C12_FailedReleaseKeeps ==
    [][\A i \in Instances :
         /\ (step'.inst = i /\ step'.call = "releaseID" /\ ret'[i].err = "store")
            => /\ allocated[i] /\ allocated'[i]
               /\ ID'[i] = ID[i]
               /\ ret'[i].op = "releaseID"
         /\ (FailedRelease(i) /\ step'.inst = i /\ step'.call = "releaseID")
            => /\ step'.op \in {"Delete", "DeleteAbsent"}
               /\ store' \subseteq store
               /\ \A e \in store \ store' : e.key = createKey(ID[i])
               /\ ID'[i] = ID[i]
         /\ (FailedRelease(i) /\ step'.inst = i /\ step'.call = "getID")
            => /\ step'.op = "none"
               /\ store' = store
               /\ ret'[i] = Ret("getID", ID[i], "nil", 0)]_vars

\* the only instance that ever made a call has had its release fail twice in a
\* row: the first delete was applied, the second found the same key absent, and
\* the instance still holds its id
C12_Witness ==
    \E i \in Instances :
        /\ step = Step(i, "releaseID", "DeleteAbsent")
        /\ FailedRelease(i)
        /\ allocated[i] /\ ID[i] # 0
        /\ \A j \in Instances \ {i} : ret[j] = NoRet

\* C13: a releaseID() on an instance with allocated = TRUE whose key
\* allocatedIDs/<ID> has no record, the delete answering without an error,
\* returns no error, sets allocated to false and leaves the store as it was.
C13_ReleaseAbsent ==
    [][\A i \in Instances :
         (allocated[i] /\ pc[i] = "idle" /\ ~KeyExists(store, createKey(ID[i]))
             /\ step'.inst = i /\ step'.call = "releaseID" /\ ret'[i].err # "store")
         => /\ ret'[i] = Ret("releaseID", 0, "nil", 0)
            /\ ~allocated'[i]
            /\ store' = store]_vars

\* a release has succeeded on a key that had no record
C13_Witness ==
    \E i \in Instances :
        /\ step = Step(i, "releaseID", "DeleteAbsent")
        /\ ret[i] = Ret("releaseID", 0, "nil", 0)
        /\ ~allocated[i]

\* C14 (under SpecMutex: all callers share one instance): at most one call of an
\* instance is under way, and while it is, every step on the instance is a step
\* of that call; the store never holds two records of the instance; as long as
\* nothing was released, all the getID() calls that succeeded returned the same
\* id.
C14_MutualExclusion ==
    /\ [](/\ \A c, d \in Instances :
               (c # d /\ obj[c] = obj[d]) => (pc[c] = "idle" \/ pc[d] = "idle")
          /\ \A c \in Instances : Cardinality(Owned(store, obj[c])) <= 1
          /\ released = 0
             => \A c, d \in Instances :
                  (obj[c] = obj[d] /\ Succeeded(c) /\ Succeeded(d)) => ret[c].id = ret[d].id)
    /\ [][\A c, d \in Instances :
            (pc[c] # "idle" /\ obj[d] = obj[c] /\ step'.inst = d) => d = c]_vars

\* every caller of the one instance has got the id: one by the allocation loop,
\* the others from the instance
C14_Witness ==
    /\ \A c \in Instances : obj[c] = 1 /\ Succeeded(c)
    /\ \E c \in Instances : ret[c].writes >= 1
    /\ \E c \in Instances : ret[c].writes = 0 /\ step = Step(c, "getID", "none")
    /\ released = 0
    /\ Cardinality(Owned(store, 1)) = 1

\* C15 (as claimed): an allocation attempt whose key listing holds a key under
\* the prefix that is not a decimal integer makes getID() fail with the
\* InvalidKey error, without a conditional write and with allocated false.
C15_InvalidKey ==
    [][\A i \in Instances :
         (pc[i] = "list" /\ step'.inst = i /\ KeyExists(store, BadKey))
         => /\ ret'[i].op = "getID" /\ ret'[i].err = "errInvalidKey"
            /\ pc'[i] = "idle"
            /\ store' = store
            /\ ~allocated'[i]]_vars

\* C16 (as claimed, the applied-but-failed delete included): every record that a
\* releaseID() removes from the store has the caller's serviceLabel as its name.
C16_ReleaseOwnRecord ==
    [][\A i \in Instances :
         (step'.inst = i /\ step'.call = "releaseID")
         => \A e \in store \ store' : e.value.Name = serviceLabel(i)]_vars

\* C17 (under SpecCrash: failing writes and deletes, applied or not, crashes and
\* restarts with the same label, releases): the store never holds two records
\* with the same owner label.
C17_OneRecordPerOwner ==
    \A i \in Instances : Cardinality(Owned(store, i)) <= 1

\* with no crash and no release so far, a getID() has found in its discovery pass
\* the record that an earlier call of the instance wrote before it returned the
\* store's error
C17_Witness ==
    \E i \in Instances :
        /\ step = Step(i, "getID", "ListValues")
        /\ Succeeded(i) /\ allocated[i]
        /\ Owned(store, i) = {Record(i, ID[i])}
        /\ released = 0

\* C18 (under SpecAcq: no releaseID()): when the ids that were in the store at
\* the start are 1..k for some k >= 0, the empty store included, the ids present
\* in the store are 1..n for some n in every reachable state.
C18_DenseWithoutRelease ==
    Dense(ForeignIDs(store)) => Dense(PresentIDs(store))

\* from the empty store every instance has allocated, one of them after a lost
\* race, and the ids are 1..NumInst
C18_Witness ==
    /\ ForeignIDs(store) = {}
    /\ PresentIDs(store) = 1..NumInst
    /\ \A i \in Instances : allocated[i]
    /\ \E i \in Instances : ret[i].writes >= 2

\* C19 (under SpecAcqFair: no store error, no releaseID(), every call goes on):
\* with NumInst - 1 below the retry budget, a getID() call lists at most NumInst
\* times, that is loses at most NumInst - 1 races, none returns
\* errUnableToAllocateID, and from some point on no call is under way and every
\* instance holds an id: every call has returned.
C19_BoundedLosses ==
    (NumInst - 1 < maxAttempts)
    => /\ [](\A i \in Instances :
               /\ attempts[i] <= NumInst
               /\ ret[i].writes <= NumInst
               /\ ret[i].err # "errUnableToAllocateID")
       /\ <>[](\A i \in Instances : pc[i] = "idle" /\ allocated[i])

\* an instance has got its id after losing a race to every other instance
C19_Witness ==
    \E i \in Instances :
        /\ Succeeded(i) /\ ret[i].writes = NumInst
        /\ \A j \in Instances : allocated[j] /\ pc[j] = "idle"

====
